---- MODULE Spec2Model ----
(***************************************************************************)
(* Tennis match predictor: the dataset acquisition pipeline                *)
(* (tennis_match_predictor-v12.py, and the earlier                         *)
(* tennis_match_predictor-app.py) and the per-click prediction handler,    *)
(* as state machines over the on-disk cache and the script's position.     *)
(***************************************************************************)
EXTENDS Integers, Sequences, FiniteSets, TLC

\* ------------------------------------------------------------------ bounds
\* Files a directory or an archive folder holds in an enumerated input.
MaxDirFiles == 2
\* Files a stale staging folder holds in an enumerated initial disk.
MaxStale == 1
\* Script runs over the same disk.
MaxRuns == 2
\* Rows of an enumerated input table.
MaxRows == 2

\* ------------------------------------------------------- program constants
max_retries == 3
YearLo == 1981
YearHi == 2024

\* ---------------------------------------------------------------- strings
\* A file name is the sequence of its characters.
Digits == <<"0", "1", "2", "3", "4", "5", "6", "7", "8", "9">>

\* Characters in code-point order ('.' < digits < '_' < lowercase letters).
Alphabet ==
    <<".">> \o Digits \o <<"_">> \o
    <<"a", "b", "c", "d", "e", "f", "g", "h", "i", "j", "k", "l", "m",
      "n", "o", "p", "q", "r", "s", "t", "u", "v", "w", "x", "y", "z">>

Ord(c) == CHOOSE i \in 1..Len(Alphabet) : Alphabet[i] = c

IsDigitChar(c) == \E i \in 1..Len(Digits) : Digits[i] = c

DigitVal(c) == (CHOOSE i \in 1..Len(Digits) : Digits[i] = c) - 1

\* Python's s < t on strings: lexicographic by code point, a proper prefix first.
StrLess(s, t) ==
    \E k \in 1..(Len(t)) :
        /\ k <= Len(s) + 1
        /\ \A j \in 1..(k - 1) : s[j] = t[j]
        /\ \/ k = Len(s) + 1
           \/ (k <= Len(s) /\ Ord(s[k]) < Ord(t[k]))

\* Python's s[-8:-4]: the four characters before the last four (fewer when the
\* string is shorter).
Slice8to4(s) ==
    LET n == Len(s)
        lo == IF n >= 8 THEN n - 8 + 1 ELSE 1
        hi == n - 4
    IN  IF hi < lo THEN <<>> ELSE SubSeq(s, lo, hi)

\* str.isdigit(): non-empty and all digits.
IsDigit(s) == Len(s) > 0 /\ \A i \in 1..Len(s) : IsDigitChar(s[i])

RECURSIVE ToInt(_)
\* int(s) of a digit string.
ToInt(s) ==
    IF s = <<>> THEN 0
    ELSE 10 * ToInt(SubSeq(s, 1, Len(s) - 1)) + DigitVal(s[Len(s)])

HasPrefix(s, p) == Len(s) >= Len(p) /\ SubSeq(s, 1, Len(p)) = p

HasSuffix(s, p) == Len(s) >= Len(p) /\ SubSeq(s, Len(s) - Len(p) + 1, Len(s)) = p

MatchesPrefix == <<"a", "t", "p", "_", "m", "a", "t", "c", "h", "e", "s", "_">>

DotCsv == <<".", "c", "s", "v">>

\* --------------------------------------------------------------- fixtures
\* The files a primary directory may hold.
F1968 == "atp_matches_1968.csv"
F1999 == "atp_matches_1999.csv"
F2001 == "atp_matches_2001.csv"
F2003 == "atp_matches_2003.csv"
Famateur == "atp_matches_amateur.csv"
Fplayers == "atp_players.csv"

FileNames == {F1968, F1999, F2001, F2003, Famateur, Fplayers}

\* The characters of a file name.
Chars(f) ==
    CASE f = F1968 -> MatchesPrefix \o <<"1", "9", "6", "8">> \o DotCsv
      [] f = F1999 -> MatchesPrefix \o <<"1", "9", "9", "9">> \o DotCsv
      [] f = F2001 -> MatchesPrefix \o <<"2", "0", "0", "1">> \o DotCsv
      [] f = F2003 -> MatchesPrefix \o <<"2", "0", "0", "3">> \o DotCsv
      [] f = Famateur -> MatchesPrefix \o <<"a", "m", "a", "t", "e", "u", "r">> \o DotCsv
      [] f = Fplayers -> <<"a", "t", "p", "_", "p", "l", "a", "y", "e", "r", "s">> \o DotCsv

\* glob "atp_matches_*.csv" on a file name of the directory.
GlobMatch(f) ==
    /\ Len(Chars(f)) >= Len(MatchesPrefix) + Len(DotCsv)
    /\ HasPrefix(Chars(f), MatchesPrefix)
    /\ HasSuffix(Chars(f), DotCsv)

\* The year filter of the earlier app: f[-8:-4].isdigit() and
\* 1981 <= int(f[-8:-4]) <= 2024.
YearOk(f) ==
    /\ IsDigit(Slice8to4(Chars(f)))
    /\ YearLo <= ToInt(Slice8to4(Chars(f)))
    /\ ToInt(Slice8to4(Chars(f))) <= YearHi

Null == "NaN"

Row(w, l, s, t) == [winner_name |-> w, loser_name |-> l, surface |-> s, tourney_level |-> t]

\* A CSV file: its rows, and where the parser raises (0: nowhere, 1: at the
\* header or first row, 2: at a later line).
Csv(rows, bad) == [exists |-> TRUE, rows |-> rows, bad |-> bad]

NoCsv == [exists |-> FALSE, rows |-> <<>>, bad |-> 0]

\* What each fixture file holds.
Content(f) ==
    CASE f = F1968 -> Csv(<<Row("A", "B", "Grass", "G")>>, 0)
      [] f = F1999 -> Csv(<<Row("A", "B", "Clay", "G"), Row("B", "A", Null, "G")>>, 0)
      [] f = F2001 -> Csv(<<>>, 1)
      [] f = F2003 -> Csv(<<Row("B", "A", "Hard", "M")>>, 2)
      [] f = Famateur -> Csv(<<Row(Null, "B", "Clay", "A")>>, 0)
      [] OTHER -> Csv(<<Row("A", "A", "Clay", Null)>>, 0)

\* The CSV inside the secondary archive, and what a broken extraction can
\* leave of it: a shorter file that still parses, or one the parser rejects.
KaggleCsv == Csv(<<Row("B", "A", "Hard", "G"), Row("A", "B", Null, "G")>>, 0)

TruncatedCsvs ==
    {Csv(SubSeq(KaggleCsv.rows, 1, k), 0) : k \in 0..(Len(KaggleCsv.rows) - 1)}
    \cup {Csv(<<>>, 1), Csv(SubSeq(KaggleCsv.rows, 1, 1), 2)}

\* A directory: whether it exists, and the files in it.
Dir(files) == [exists |-> TRUE, files |-> files]

NoDir == [exists |-> FALSE, files |-> {}]

\* The extraction root: whether it exists, and the folder tennis_atp-master in it.
TempDir(m) == [exists |-> TRUE, master |-> m]

NoTemp == [exists |-> FALSE, master |-> NoDir]

SmallSets(S, n) == {X \in SUBSET S : Cardinality(X) <= n}

\* A zip file on disk: absent, not a zip at all, or an archive, which holds the
\* folder tennis_atp-master with some files or holds other members only.
Archive(folder, files) == [kind |-> "zip", folder |-> folder, files |-> files]

NoZip == [kind |-> "none", folder |-> FALSE, files |-> {}]

CorruptZip == [kind |-> "corrupt", folder |-> FALSE, files |-> {}]

Archives ==
    {Archive(FALSE, {})} \cup {Archive(TRUE, S) : S \in SmallSets(FileNames, MaxDirFiles)}

\* ------------------------------------------------------------------ state
VARIABLES
    atp_data,       \* the directory "atp_data": NoDir or Dir(its files)
    zipped_data,    \* the file cached_atp_dataset.zip: NoZip, CorruptZip or an archive
    temp_dir,       \* the extraction root: NoTemp, or TempDir(tennis_atp-master in it)
    kaggle_zip,     \* the secondary archive: "none", "corrupt" or "zip"
    kaggle_file,    \* kaggle_data/atp_matches.csv: NoCsv or a CSV
    pc,             \* the script's position
    attempt,        \* try_extract_all's loop variable
    msgs,           \* what st.error / st.warning / an uncaught exception showed
    all_files,      \* the sorted glob result
    skipped,        \* the files reported as "Skipping ..."
    dfs,            \* the loaded tables
    df,             \* the combined table
    query,          \* the selectors: player1, player2, surface, tourney_level
    result,         \* what the Predict Winner handler showed
    run,            \* the number of this script run
    fetches,        \* requests.get calls of each run
    extractCalls,   \* extractall calls on the primary archive in this run
    cleanupTried,   \* whether line 87 ran in this run
    atp0,           \* atp_data when this run started
    zip0,           \* zipped_data when this run started
    raw             \* the combined table before the null filter

disk == <<atp_data, zipped_data, temp_dir, kaggle_zip, kaggle_file>>
primaryDisk == <<atp_data, zipped_data, temp_dir>>
secondaryDisk == <<kaggle_zip, kaggle_file>>
tables == <<all_files, skipped, dfs, df, raw>>
ui == <<query, result>>
ghost == <<run, atp0, zip0>>
vars ==
    <<atp_data, zipped_data, temp_dir, kaggle_zip, kaggle_file, pc, attempt, msgs,
      all_files, skipped, dfs, df, query, result, run, fetches, extractCalls,
      cleanupTried, atp0, zip0, raw>>

NoQuery == [player1 |-> Null, player2 |-> Null, surface |-> Null, tourney_level |-> Null]

\* ------------------------------------------------------- file operations
\* extractall of archive a into the root t: members are written over what is there.
ExtractInto(t, a) ==
    IF a.folder
    THEN TempDir(Dir(t.master.files \cup a.files))
    ELSE TempDir(t.master)

\* What an extractall that raises can leave: nothing new, or some of the members.
PartialExtracts(t, a) ==
    {t} \cup {ExtractInto(t, Archive(a.folder, S)) : S \in SUBSET a.files}

\* What a failing shutil.rmtree can leave of the root t: all of it, or part.
PartialRemovals(t) ==
    IF t.master.exists
    THEN {TempDir(Dir(S)) : S \in SUBSET t.master.files}
    ELSE {t}

\* A primary block that no longer looks at the directory.
NeedsDownloadAlways(d) == TRUE

\* Line 53: the primary directory is missing or empty.
NeedsDownload(d) == ~d.exists \/ d.files = {}

\* A retry loop that gives up one attempt early.
RetriesExhaustedEarly(n) == n + 1 >= max_retries

\* try_extract_all's loop bound: the attempts are used up.
RetriesExhausted(n) == n >= max_retries

\* ------------------------------------------------------------- run start
\* The script's memory at the start of run n; the disk is what it is.
FreshRun(n) ==
    /\ pc = "start"
    /\ attempt = 0
    /\ msgs = {}
    /\ all_files = <<>>
    /\ skipped = {}
    /\ dfs = <<>>
    /\ df = <<>>
    /\ raw = <<>>
    /\ query = NoQuery
    /\ result = "none"
    /\ run = n
    /\ extractCalls = 0
    /\ cleanupTried = FALSE
    /\ atp0 = atp_data
    /\ zip0 = zipped_data

\* ------------------------------------------ v12: the primary download block
\* Line 53: skip the whole block when atp_data exists and is non-empty.
PrimaryCheck ==
    /\ pc = "start"
    /\ pc' = IF NeedsDownload(atp_data) THEN "fetch" ELSE "kaggle"
    /\ UNCHANGED <<disk, attempt, msgs, tables, ui, ghost, fetches, extractCalls, cleanupTried>>

\* Lines 56-59: requests.get only when the zip cache is absent; it raises, or
\* its body (an archive, or something that is no zip) is written to the cache.
Fetch ==
    /\ pc = "fetch"
    /\ IF zipped_data.kind # "none"
       THEN /\ pc' = "open"
            /\ UNCHANGED <<zipped_data, fetches, msgs>>
       ELSE /\ fetches' = [fetches EXCEPT ![run] = @ + 1]
            /\ \/ /\ msgs' = msgs \cup {"error_download_failed"}
                  /\ pc' = "stopped"
                  /\ UNCHANGED zipped_data
               \/ /\ zipped_data' \in Archives \cup {CorruptZip}
                  /\ pc' = "open"
                  /\ UNCHANGED msgs
    /\ UNCHANGED <<atp_data, temp_dir, secondaryDisk, attempt, tables, ui, ghost,
                   extractCalls, cleanupTried>>

\* Line 61: zipfile.ZipFile raises on a file that is no zip (lines 90-92).
OpenZip ==
    /\ pc = "open"
    /\ IF zipped_data.kind = "corrupt"
       THEN /\ msgs' = msgs \cup {"error_download_failed"}
            /\ pc' = "stopped"
       ELSE /\ pc' = "clean"
            /\ UNCHANGED msgs
    /\ UNCHANGED <<disk, attempt, tables, ui, ghost, fetches, extractCalls, cleanupTried>>

\* Lines 62-68: remove a staging directory that is there; a failure is a warning.
CleanTemp ==
    /\ pc = "clean"
    /\ IF temp_dir.exists
       THEN \/ /\ temp_dir' = NoTemp
               /\ UNCHANGED msgs
            \/ /\ temp_dir' \in PartialRemovals(temp_dir)
               /\ msgs' = msgs \cup {"warning_clean_temp"}
       ELSE UNCHANGED <<temp_dir, msgs>>
    /\ pc' = "extract"
    /\ attempt' = 0
    /\ UNCHANGED <<atp_data, zipped_data, secondaryDisk, tables, ui, ghost, fetches,
                   extractCalls, cleanupTried>>

\* Lines 34-42 and 70-72: one iteration of try_extract_all on the primary
\* archive; after the last failed one the script stops. st.stop() ends the run
\* where it stands: what follows it in the block (lines 74-89) does not run.
ExtractAttempt ==
    /\ pc = "extract"
    /\ extractCalls' = extractCalls + 1
    /\ \/ /\ temp_dir' = ExtractInto(temp_dir, zipped_data)
          /\ pc' = "locate"
          /\ UNCHANGED <<attempt, msgs>>
       \/ /\ temp_dir' \in PartialExtracts(temp_dir, zipped_data)
          /\ attempt' = attempt + 1
          /\ IF RetriesExhausted(attempt + 1)
             THEN /\ msgs' = msgs \cup {"warning_extract", "error_extract"}
                  /\ pc' = "stopped"
             ELSE /\ msgs' = msgs \cup {"warning_extract"}
                  /\ pc' = "extract"
    /\ UNCHANGED <<atp_data, zipped_data, secondaryDisk, tables, ui, ghost, fetches,
                   cleanupTried>>

\* Lines 74-84: move the extracted folder into place, or stop when it is missing.
MoveIntoPlace ==
    /\ pc = "locate"
    /\ IF temp_dir.master.exists
       THEN /\ pc' = "cleanup"
            /\ \/ /\ atp_data' = Dir(temp_dir.master.files)
                  /\ temp_dir' = TempDir(NoDir)
                  /\ UNCHANGED msgs
               \/ /\ atp_data.exists
                  /\ msgs' = msgs \cup {"error_move"}
                  /\ UNCHANGED <<atp_data, temp_dir>>
               \/ /\ atp_data' = NoDir
                  /\ msgs' = msgs \cup {"error_move"}
                  /\ UNCHANGED temp_dir
       ELSE /\ msgs' = msgs \cup {"error_no_folder"}
            /\ pc' = "stopped"
            /\ UNCHANGED <<atp_data, temp_dir>>
    /\ UNCHANGED <<zipped_data, secondaryDisk, attempt, tables, ui, ghost, fetches,
                   extractCalls, cleanupTried>>

\* Lines 86-89: remove the staging directory; a failure is a warning.
CleanupTemp ==
    /\ pc = "cleanup"
    /\ cleanupTried' = TRUE
    /\ \/ /\ temp_dir' = NoTemp
          /\ UNCHANGED msgs
       \/ /\ temp_dir' \in PartialRemovals(temp_dir)
          /\ msgs' = msgs \cup {"warning_cleanup"}
    /\ pc' = "kaggle"
    /\ UNCHANGED <<atp_data, zipped_data, secondaryDisk, attempt, tables, ui, ghost,
                   fetches, extractCalls>>

\* ------------------------------------------------- v12: the Kaggle block
\* Line 99: the block runs only when the secondary CSV is not there.
KaggleCheck ==
    /\ pc = "kaggle"
    /\ pc' = IF kaggle_file.exists THEN "load" ELSE "kdownload"
    /\ UNCHANGED <<disk, attempt, msgs, tables, ui, ghost, fetches, extractCalls, cleanupTried>>

\* Lines 101-106: the API client runs when the zip is not cached; it raises
\* (no credentials, no client, an API error), or leaves a zip, a file that is
\* no zip, or no file of that name.
KaggleDownload ==
    /\ pc = "kdownload"
    /\ IF kaggle_zip # "none"
       THEN /\ pc' = "kopen"
            /\ UNCHANGED <<kaggle_zip, msgs>>
       ELSE \/ /\ msgs' = msgs \cup {"warning_kaggle"}
               /\ pc' = "load"
               /\ UNCHANGED kaggle_zip
            \/ /\ kaggle_zip' \in {"zip", "corrupt", "none"}
               /\ pc' = "kopen"
               /\ UNCHANGED msgs
    /\ UNCHANGED <<primaryDisk, kaggle_file, attempt, tables, ui, ghost, fetches,
                   extractCalls, cleanupTried>>

\* Line 108: ZipFile raises on a missing file or on one that is no zip (line 112).
KaggleOpen ==
    /\ pc = "kopen"
    /\ IF kaggle_zip = "zip"
       THEN /\ pc' = "kextract"
            /\ attempt' = 0
            /\ UNCHANGED msgs
       ELSE /\ msgs' = msgs \cup {"warning_kaggle"}
            /\ pc' = "load"
            /\ UNCHANGED attempt
    /\ UNCHANGED <<disk, tables, ui, ghost, fetches, extractCalls, cleanupTried>>

\* Lines 34-42 and 109-110: one iteration of try_extract_all on the secondary
\* archive; an extractall that raises may have written part of the CSV.
KaggleExtractAttempt ==
    /\ pc = "kextract"
    /\ \/ /\ kaggle_file' = KaggleCsv
          /\ pc' = "load"
          /\ UNCHANGED <<attempt, msgs>>
       \/ /\ kaggle_file' \in {kaggle_file} \cup TruncatedCsvs
          /\ attempt' = attempt + 1
          /\ IF RetriesExhausted(attempt + 1)
             THEN /\ msgs' = msgs \cup {"warning_extract", "warning_kaggle_extract"}
                  /\ pc' = "load"
             ELSE /\ msgs' = msgs \cup {"warning_extract"}
                  /\ pc' = "kextract"
    /\ UNCHANGED <<primaryDisk, kaggle_zip, tables, ui, ghost, fetches, extractCalls,
                   cleanupTried>>

\* ------------------------------------------------------ load and combine
RECURSIVE SortedSeq(_)
\* sorted(): the names of S in increasing string order.
SortedSeq(S) ==
    IF S = {} THEN <<>>
    ELSE LET m == CHOOSE x \in S : \A y \in S \ {x} : StrLess(Chars(x), Chars(y))
         IN  <<m>> \o SortedSeq(S \ {m})

\* Line 116 of v12: sorted(glob("atp_data/atp_matches_*.csv")).
GlobFiles(d) == SortedSeq({f \in d.files : GlobMatch(f)})

\* pd.read_csv(f) returns the rows unless the parser raises somewhere.
Parses(c) == c.bad = 0

\* pd.read_csv(f, nrows=1) raises only on the header or the first row.
ParsesFirstRow(c) == c.bad # 1

RECURSIVE LoadTables(_)
\* Lines 119-124: the tables of the files that parse, in the order of fs.
LoadTables(fs) ==
    IF fs = <<>> THEN <<>>
    ELSE (IF Parses(Content(Head(fs))) THEN <<Content(Head(fs)).rows>> ELSE <<>>)
         \o LoadTables(Tail(fs))

RECURSIVE Concat(_)
\* pd.concat(dfs, ignore_index=True): the rows of the tables, one after another.
Concat(ts) == IF ts = <<>> THEN <<>> ELSE Head(ts) \o Concat(Tail(ts))

\* A merge that leaves the secondary table out of the list.
WithKaggleDropped(ts, kaggle_df) == ts

\* Lines 126-127: the secondary table is appended when it has rows.
WithKaggle(ts, kaggle_df) == IF Len(kaggle_df) > 0 THEN Append(ts, kaggle_df) ELSE ts

\* Lines 116-133 of v12.
LoadAndMerge ==
    /\ pc = "load"
    /\ all_files' = GlobFiles(atp_data)
    /\ IF kaggle_file.exists /\ ~Parses(kaggle_file)
       THEN /\ msgs' = msgs \cup {"exception_read_csv_kaggle"}
            /\ pc' = "crashed"
            /\ UNCHANGED <<skipped, dfs, df, raw>>
       ELSE LET tabs == WithKaggle(LoadTables(all_files'), kaggle_file.rows)
            IN  /\ skipped' = {all_files'[i] : i \in {j \in 1..Len(all_files') :
                                                  ~Parses(Content(all_files'[j]))}}
                /\ dfs' = tabs
                /\ IF tabs = <<>>
                   THEN /\ msgs' = msgs \cup {"error_no_data"}
                        /\ pc' = "stopped"
                        /\ UNCHANGED <<df, raw>>
                   ELSE /\ df' = Concat(tabs)
                        /\ raw' = Concat(tabs)
                        /\ pc' = "merged"
                        /\ UNCHANGED msgs
    /\ UNCHANGED <<disk, attempt, ui, ghost, fetches, extractCalls, cleanupTried>>

\* Line 137: both names are there.
HasNames(r) == r.winner_name # Null /\ r.loser_name # Null

\* A second filter that forgets the tournament level.
HasContextSurfaceOnly(r) == r.surface # Null

\* Line 138: surface and tournament level are there.
HasContext(r) == r.surface # Null /\ r.tourney_level # Null

\* Lines 137-138: the two filters, one after the other.
Filtered(t) == SelectSeq(SelectSeq(t, HasNames), HasContext)

Preprocess ==
    /\ pc = "merged"
    /\ df' = Filtered(df)
    /\ pc' = "ready"
    /\ UNCHANGED <<disk, attempt, msgs, all_files, skipped, dfs, raw, ui, ghost, fetches,
                   extractCalls, cleanupTried>>

\* The script runs again, from the top, over the disk the last run left.
NewRun ==
    /\ pc \in {"stopped", "crashed", "ready", "done"}
    /\ run < MaxRuns
    /\ pc' = "start"
    /\ attempt' = 0
    /\ msgs' = {}
    /\ all_files' = <<>>
    /\ skipped' = {}
    /\ dfs' = <<>>
    /\ df' = <<>>
    /\ raw' = <<>>
    /\ query' = NoQuery
    /\ result' = "none"
    /\ run' = run + 1
    /\ extractCalls' = 0
    /\ cleanupTried' = FALSE
    /\ atp0' = atp_data
    /\ zip0' = zipped_data
    /\ UNCHANGED <<disk, fetches>>

\* ------------------------------------------------------- specification
\* A deployment's disk before the first run: no cache yet, or a primary
\* directory and secondary files put there beforehand.
InitialDisks ==
    /\ atp_data \in {NoDir} \cup {Dir(S) : S \in SmallSets(FileNames, MaxDirFiles)}
    /\ zipped_data = NoZip
    /\ temp_dir = NoTemp
    /\ kaggle_zip \in {"none", "zip", "corrupt"}
    /\ kaggle_file \in {NoCsv, KaggleCsv}

Init ==
    /\ InitialDisks
    /\ FreshRun(1)
    /\ fetches = [r \in 1..MaxRuns |-> 0]

Next ==
    \/ PrimaryCheck
    \/ Fetch
    \/ OpenZip
    \/ CleanTemp
    \/ ExtractAttempt
    \/ MoveIntoPlace
    \/ CleanupTemp
    \/ KaggleCheck
    \/ KaggleDownload
    \/ KaggleOpen
    \/ KaggleExtractAttempt
    \/ LoadAndMerge
    \/ Preprocess
    \/ NewRun

Spec == Init /\ [][Next]_vars

\* ------------------------------------------- ensurePrimarySource on its own
\* Any disk the primary block can meet, a stale staging directory included.
InitPrimary ==
    /\ atp_data \in {NoDir} \cup {Dir(S) : S \in SmallSets(FileNames, MaxDirFiles)}
    /\ zipped_data \in {NoZip, CorruptZip} \cup Archives
    /\ temp_dir \in {NoTemp, TempDir(NoDir)}
                    \cup {TempDir(Dir(S)) : S \in SmallSets(FileNames, MaxStale)}
    /\ kaggle_zip = "none"
    /\ kaggle_file = NoCsv
    /\ FreshRun(1)
    /\ fetches = [r \in 1..MaxRuns |-> 0]

NextPrimary ==
    \/ PrimaryCheck
    \/ Fetch
    \/ OpenZip
    \/ CleanTemp
    \/ ExtractAttempt
    \/ MoveIntoPlace
    \/ CleanupTemp

SpecPrimary == InitPrimary /\ [][NextPrimary]_vars

\* ------------------------------------------------------- the earlier app
\* Line 22 of the app: download only when atp_data does not exist.
AppCheck ==
    /\ pc = "start"
    /\ pc' = IF atp_data.exists THEN "app_load" ELSE "app_download"
    /\ UNCHANGED <<disk, attempt, msgs, tables, ui, ghost, fetches, extractCalls, cleanupTried>>

\* Lines 24-31 of the app: fetch, extract into the working directory and rename
\* the folder; nothing is caught, so whatever raises (the request, ZipFile on
\* a body that is no zip, extractall, os.rename) ends the run. temp_dir stands
\* for the working directory, the extraction root here.
AppDownload ==
    /\ pc = "app_download"
    /\ fetches' = [fetches EXCEPT ![run] = @ + 1]
    /\ \/ /\ msgs' = msgs \cup {"exception_download"}
          /\ pc' = "crashed"
          /\ UNCHANGED <<atp_data, temp_dir, extractCalls>>
       \/ \E a \in Archives :
            /\ extractCalls' = extractCalls + 1
            /\ \/ /\ temp_dir' \in PartialExtracts(temp_dir, a)
                  /\ msgs' = msgs \cup {"exception_extract"}
                  /\ pc' = "crashed"
                  /\ UNCHANGED atp_data
               \/ /\ ExtractInto(temp_dir, a).master.exists
                  /\ \/ /\ atp_data' = Dir(ExtractInto(temp_dir, a).master.files)
                        /\ temp_dir' = TempDir(NoDir)
                        /\ pc' = "app_load"
                        /\ UNCHANGED msgs
                     \/ /\ temp_dir' = ExtractInto(temp_dir, a)
                        /\ msgs' = msgs \cup {"exception_rename"}
                        /\ pc' = "crashed"
                        /\ UNCHANGED atp_data
               \/ /\ ~ExtractInto(temp_dir, a).master.exists
                  /\ temp_dir' = ExtractInto(temp_dir, a)
                  /\ pc' = "app_load"
                  /\ UNCHANGED <<atp_data, msgs>>
    /\ UNCHANGED <<zipped_data, secondaryDisk, attempt, tables, ui, ghost, cleanupTried>>

\* Lines 34-35 of the app: the glob result, kept where the name ends in a year
\* of 1981..2024.
YearFiles(d) == SelectSeq(GlobFiles(d), YearOk)

\* Lines 42-48 of the app: the files whose first row parses.
FirstRowOk(f) == ParsesFirstRow(Content(f))

FullyOk(f) == Parses(Content(f))

\* Lines 34-55 of the app.
AppLoad ==
    /\ pc = "app_load"
    /\ all_files' = YearFiles(atp_data)
    /\ IF all_files' = <<>>
       THEN /\ msgs' = msgs \cup {"error_no_files"}
            /\ pc' = "stopped"
            /\ UNCHANGED <<skipped, dfs, df, raw>>
       ELSE LET valid_files == SelectSeq(all_files', FirstRowOk)
            IN  /\ skipped' = {all_files'[i] : i \in {j \in 1..Len(all_files') :
                                                  ~FirstRowOk(all_files'[j])}}
                /\ IF valid_files = <<>>
                   THEN /\ msgs' = msgs \cup {"error_no_valid_files"}
                        /\ pc' = "stopped"
                        /\ UNCHANGED <<dfs, df, raw>>
                   ELSE IF \E i \in 1..Len(valid_files) : ~FullyOk(valid_files[i])
                   THEN /\ msgs' = msgs \cup {"exception_read_csv_primary"}
                        /\ pc' = "crashed"
                        /\ UNCHANGED <<dfs, df, raw>>
                   ELSE /\ dfs' = LoadTables(valid_files)
                        /\ df' = Concat(LoadTables(valid_files))
                        /\ raw' = Concat(LoadTables(valid_files))
                        /\ pc' = "merged"
                        /\ UNCHANGED msgs
    /\ UNCHANGED <<disk, attempt, ui, ghost, fetches, extractCalls, cleanupTried>>

\* The app extracts into its working directory, where an earlier run may have
\* left the folder tennis_atp-master.
InitApp ==
    /\ atp_data \in {NoDir} \cup {Dir(S) : S \in SmallSets(FileNames, MaxDirFiles)}
    /\ zipped_data = NoZip
    /\ temp_dir \in {TempDir(NoDir)} \cup {TempDir(Dir(S)) : S \in SmallSets(FileNames, MaxStale)}
    /\ kaggle_zip = "none"
    /\ kaggle_file = NoCsv
    /\ FreshRun(1)
    /\ fetches = [r \in 1..MaxRuns |-> 0]

NextApp ==
    \/ AppCheck
    \/ AppDownload
    \/ AppLoad

SpecApp == InitApp /\ [][NextApp]_vars

\* ------------------------------------------- selectors and Predict Winner
\* Line 141: the names that occur in the table.
Players(t) ==
    {t[i].winner_name : i \in 1..Len(t)} \cup {t[i].loser_name : i \in 1..Len(t)}

\* Lines 146-147: the values of one column, nulls dropped.
Surfaces(t) == {t[i].surface : i \in 1..Len(t)} \ {Null}

Levels(t) == {t[i].tourney_level : i \in 1..Len(t)} \ {Null}

\* st.selectbox returns one of its options, or None when there is none.
Options(S) == IF S = {} THEN {Null} ELSE S

\* Lines 141-147: the user sets the four selectors.
SelectInputs ==
    /\ pc = "ready"
    /\ query' \in [player1 : Options(Players(df)), player2 : Options(Players(df)),
                   surface : Options(Surfaces(df)), tourney_level : Options(Levels(df))]
    /\ pc' = "selected"
    /\ UNCHANGED <<disk, attempt, msgs, tables, result, ghost, fetches, extractCalls,
                   cleanupTried>>

\* Line 150: the rows whose winner is one of the two players and whose loser
\* is one of the two players.
HeadToHead(t, p1, p2) ==
    LET Both(r) == r.winner_name \in {p1, p2} /\ r.loser_name \in {p1, p2}
    IN  SelectSeq(t, Both)

\* Line 170: the predicted label names player1 or player2.
Winner(prediction, p1, p2) == IF prediction THEN p1 ELSE p2

\* Lines 149-171: the button's handler; the classifier's label is whatever
\* the fitted model returns.
PredictWinner ==
    /\ pc = "selected"
    /\ IF HeadToHead(df, query.player1, query.player2) = <<>>
       THEN result' = "warning_no_h2h"
       ELSE \E prediction \in BOOLEAN :
                result' = Winner(prediction, query.player1, query.player2)
    /\ pc' = "done"
    /\ UNCHANGED <<disk, attempt, msgs, tables, query, ghost, fetches, extractCalls,
                   cleanupTried>>

\* Tables of every content, as the combined table of line 133.
PlayerNames == {"A", "B", "C"}

Rows ==
    {Row(w, l, s, t) : w \in PlayerNames \cup {Null}, l \in PlayerNames \cup {Null},
                       s \in {"Clay", Null}, t \in {"G", Null}}

Tables == UNION {[1..n -> Rows] : n \in 0..MaxRows}

InitPredict ==
    /\ atp_data = NoDir
    /\ zipped_data = NoZip
    /\ temp_dir = NoTemp
    /\ kaggle_zip = "none"
    /\ kaggle_file = NoCsv
    /\ pc = "merged"
    /\ df \in Tables \ {<<>>}
    /\ raw = df
    /\ attempt = 0
    /\ msgs = {}
    /\ all_files = <<>>
    /\ skipped = {}
    /\ dfs = <<df>>
    /\ query = NoQuery
    /\ result = "none"
    /\ run = 1
    /\ extractCalls = 0
    /\ cleanupTried = FALSE
    /\ atp0 = atp_data
    /\ zip0 = zipped_data
    /\ fetches = [r \in 1..MaxRuns |-> 0]

NextPredict ==
    \/ Preprocess
    \/ SelectInputs
    \/ PredictWinner

SpecPredict == InitPredict /\ [][NextPredict]_vars

\* ================================================================ claims
Errors == {"error_download_failed", "error_extract", "error_move", "error_no_folder"}

Loaded == pc \in {"merged", "ready", "selected", "done"}

\* A row with all four fields.
Complete(r) ==
    /\ r.winner_name # Null
    /\ r.loser_name # Null
    /\ r.surface # Null
    /\ r.tourney_level # Null

\* The primary directory holds a per-year file that parses.
PrimaryLoadable == \E f \in atp_data.files : GlobMatch(f) /\ Content(f).bad = 0

\* C1: when every extraction of the primary archive raises, extractall is
\* called exactly 3 times, the error is then shown and the run stops before
\* anything is loaded, with atp_data as the run found it; the loop never makes
\* a fourth call and never gives up before the third.
C1_ExtractionRetries ==
    /\ extractCalls <= 3
    /\ pc = "extract" => (attempt < 3 /\ extractCalls = attempt)
    /\ "error_extract" \in msgs =>
            /\ pc = "stopped"
            /\ extractCalls = 3
            /\ atp_data = atp0
            /\ all_files = <<>> /\ dfs = <<>> /\ df = <<>>

C1_Witness ==
    /\ pc = "stopped"
    /\ "error_extract" \in msgs
    /\ zipped_data.kind = "zip"
    /\ extractCalls = 3

\* C2: a run that starts with atp_data present and non-empty fetches nothing,
\* extracts nothing and leaves atp_data and the zip cache as they were; a run
\* fetches only when it starts with atp_data missing or empty and no zip cache.
C2_Idempotent ==
    /\ (atp0.exists /\ atp0.files # {}) =>
            /\ fetches[run] = 0
            /\ extractCalls = 0
            /\ atp_data = atp0
            /\ zipped_data = zip0
    /\ fetches[run] > 0 => ((~atp0.exists \/ atp0.files = {}) /\ zip0.kind = "none")

C2_Witness ==
    /\ run = 2
    /\ fetches[1] = 1
    /\ fetches[2] = 0
    /\ zip0.kind = "zip"
    /\ atp0 = Dir(zip0.files)
    /\ atp0.files # {}
    /\ pc = "ready"

\* C3: after a run of the primary block that extracted an archive holding the
\* expected folder and showed no error, atp_data holds exactly the files of
\* that folder.
C3_ExactContents ==
    (/\ pc = "kaggle"
     /\ extractCalls > 0
     /\ zipped_data.folder
     /\ msgs \cap Errors = {})
    => atp_data = Dir(zipped_data.files)

\* C4: a run in which acquiring or extracting the secondary source failed never
\* crashes, and what it loads is the primary files' table alone.
C4_SecondaryNonFatal ==
    ("warning_kaggle" \in msgs \/ "warning_kaggle_extract" \in msgs) =>
        /\ pc # "crashed"
        /\ Loaded => raw = Concat(LoadTables(GlobFiles(atp_data)))

\* C5 as stated: a run never gets past the load without a primary table, and
\* a missing secondary source alone never stops it.
C5_PrimaryAbsenceFatal ==
    /\ Loaded => PrimaryLoadable
    /\ (PrimaryLoadable /\ ~kaggle_file.exists) => "error_no_data" \notin msgs

\* C5 as amended: the load stops the run with "No valid match data found"
\* exactly when no table at all was loaded, that is no primary per-year table
\* and no secondary row; a secondary CSV with a row keeps the run going
\* without any primary table, and a missing secondary source alone never stops it.
C5_NoTablesFatal ==
    /\ "error_no_data" \in msgs =>
            (pc = "stopped" /\ ~PrimaryLoadable /\ Len(kaggle_file.rows) = 0)
    /\ Loaded => (PrimaryLoadable \/ Len(kaggle_file.rows) > 0)
    /\ (PrimaryLoadable /\ ~kaggle_file.exists) => "error_no_data" \notin msgs

C5_Witness ==
    /\ pc = "ready"
    /\ ~PrimaryLoadable
    /\ Len(kaggle_file.rows) > 0
    /\ raw = kaggle_file.rows

\* C6: a primary file that fails to parse is skipped with a warning and never
\* ends the run; the combined table is the rows of the files that parse, in
\* sorted file order, then the secondary rows; with no table the run stops.
C6_SkipAndCombine ==
    /\ "exception_read_csv_primary" \notin msgs
    /\ Loaded =>
            /\ raw = Concat(LoadTables(all_files)) \o kaggle_file.rows
            /\ skipped = {all_files[i] : i \in {j \in 1..Len(all_files) :
                                               Content(all_files[j]).bad # 0}}
            /\ \A i, j \in 1..Len(all_files) :
                   i < j => StrLess(Chars(all_files[i]), Chars(all_files[j]))
    /\ Loaded => dfs # <<>>
    /\ "error_no_data" \in msgs => (pc = "stopped" /\ dfs = <<>>)

\* C7: the handler shows the "no head-to-head data" warning exactly when no row
\* has one of the two players as winner and the other as loser, and names a
\* winner among the two players otherwise.
C7_InsufficientData ==
    pc = "done" =>
        LET a == query.player1
            b == query.player2
            strict == \E i \in 1..Len(df) :
                          \/ (df[i].winner_name = a /\ df[i].loser_name = b)
                          \/ (df[i].winner_name = b /\ df[i].loser_name = a)
        IN  /\ (result = "warning_no_h2h") <=> ~strict
            /\ result # "warning_no_h2h" => result \in {a, b}

\* C8: every file the load takes rows from has a name ending in a year of
\* 1981..2024.
C8_OnlyYearFiles ==
    Loaded => \A i \in 1..Len(all_files) :
                  Content(all_files[i]).bad = 0 => YearOk(all_files[i])

\* C9: after the filter the table has no row with a null winner, loser,
\* surface or tournament level, and it is the combined table's rows that have
\* all four, in their order.
C9_NoNullRows ==
    pc \in {"ready", "selected", "done"} =>
        /\ \A i \in 1..Len(df) : Complete(df[i])
        /\ df = SelectSeq(raw, Complete)

C9_Witness ==
    /\ pc = "ready"
    /\ \E i \in 1..Len(raw) : ~Complete(raw[i])
    /\ \E i \in 1..Len(raw) : Complete(raw[i])
    /\ Len(df) = 1

\* C10: when a run that called extractall ends its primary block, by success,
\* by a failed move or by stopping, line 87 has run, so the staging directory
\* is gone unless that removal failed with its warning.
C10_StagingRemoved ==
    (pc \in {"stopped", "kaggle"} /\ extractCalls > 0) =>
        /\ cleanupTried
        /\ temp_dir.exists => "warning_cleanup" \in msgs

====
